---- MODULE Spec2Model ----
(***************************************************************************)
(* Model of the foodscan backend (cbsdan/foodscan): the prediction         *)
(* orchestration (services/prediction_service.py and its two backends),    *)
(* the upload validation and the staging of the uploaded image             *)
(* (controllers/prediction_controller.py, nutrient_controller.py,          *)
(* services/cloudinary_service.py) and the meal ledger                     *)
(* (models/user_meal.py).                                                  *)
(*                                                                         *)
(* Python strings are tuples of one-character strings, so that lower(),    *)
(* strip() and split('.') are computed and not assumed.  Python's None is  *)
(* the record None; a JSON value of a request body is a tagged record.     *)
(***************************************************************************)
EXTENDS Integers, Sequences, FiniteSets, TLC

VARIABLES
    gemini_service,   \* services/gemini_service.py: the module global _gemini_service
    ml_service,       \* services/ml_service.py: the module global ml_service
    cloud,            \* the public ids of the objects held by the image store
    user_meals,       \* the collection db.user_meals: _id -> document
    next_id,          \* the next _id the collection assigns
    now,              \* the clock, in whole seconds (int(datetime.now().timestamp()))
    result,           \* the predict_food call of the last request, None if it made none
    response,         \* the response of the last request handled
    promotions,       \* history: the staging id and the image reference stored by each
                      \* save that carried one, in order
    pc,               \* position of the predict_food call followed statement by statement
    pending           \* that call's report so far and the outcomes its backends will have

vars == <<gemini_service, ml_service, cloud, user_meals, next_id, now, result,
          response, promotions, pc, pending>>

-----------------------------------------------------------------------------
(* Bounds of the model. *)

MaxClock == 1
MaxMeals == 2
MaxFoodTypeMeals == 2
MaxNutrientMeals == 2
MaxPromotionMeals == 2
MaxValidationMeals == 1
MaxUpdateMeals == 1
MaxScopeMeals == 2
MaxDeleteMeals == 2
MaxSummaryMeals == 2
MaxRecomputeMeals == 1
NumClasses == 3
MaxProb == 5
MaxTopK == 3

-----------------------------------------------------------------------------
(* Python values. *)

None == [none |-> TRUE]

JNull == [t |-> "null"]
JStr(s) == [t |-> "str", v |-> s]
JNum(n) == [t |-> "num", n |-> n]
JDict(d) == [t |-> "dict", d |-> d]

UpperCase == <<"A", "B", "C", "D", "E", "F", "G", "H", "I", "J", "K", "L", "M",
               "N", "O", "P", "Q", "R", "S", "T", "U", "V", "W", "X", "Y", "Z">>
LowerCase == <<"a", "b", "c", "d", "e", "f", "g", "h", "i", "j", "k", "l", "m",
               "n", "o", "p", "q", "r", "s", "t", "u", "v", "w", "x", "y", "z">>
Whitespace == {" ", "\t", "\n"}

LowerChar(c) ==
    IF \E i \in 1..Len(UpperCase) : UpperCase[i] = c
    THEN LowerCase[CHOOSE i \in 1..Len(UpperCase) : UpperCase[i] = c]
    ELSE c

\* str.lower()
Lower(s) == [i \in 1..Len(s) |-> LowerChar(s[i])]

\* str.strip(): drops the leading and the trailing whitespace
Strip(s) ==
    LET keep == {i \in 1..Len(s) : s[i] \notin Whitespace}
    IN  IF keep = {} THEN <<>>
        ELSE LET lo == CHOOSE i \in keep : \A j \in keep : i <= j
                 hi == CHOOSE i \in keep : \A j \in keep : j <= i
             IN  SubSeq(s, lo, hi)

Dots(s) == {i \in 1..Len(s) : s[i] = "."}

\* s.split('.')[-1]: what follows the last dot, the whole string when it has none
LastSegment(s) ==
    IF Dots(s) = {} THEN s
    ELSE LET d == CHOOSE i \in Dots(s) : \A j \in Dots(s) : j <= i
         IN  SubSeq(s, d + 1, Len(s))

\* s.split('.')[0]: what precedes the first dot
FirstSegment(s) ==
    IF Dots(s) = {} THEN s
    ELSE LET d == CHOOSE i \in Dots(s) : \A j \in Dots(s) : i <= j
         IN  SubSeq(s, 1, d - 1)

-----------------------------------------------------------------------------
(* Upload validation: PredictionController.predict_food and                *)
(* NutrientController.predict_nutrients_only, before any backend call.     *)

allowed_extensions ==
    { <<"p", "n", "g">>, <<"j", "p", "g">>, <<"j", "p", "e", "g">>,
      <<"g", "i", "f">>, <<"b", "m", "p">>, <<"w", "e", "b", "p">> }

MiB == 1048576
max_size == 10 * MiB

\* The extension the handlers test: filename.lower().split('.')[-1]
Extension(filename) == LastSegment(Lower(filename))

ExtensionAllowed(filename) == Extension(filename) \in allowed_extensions

TooLargeOffByOne(size) == size > max_size + 1
TooLarge(size) == size > max_size

\* The status the validation ends the request with, 0 when the upload passes.
\* upload = [present, filename, size]
ValidateUpload(upload) ==
    IF ~upload.present THEN 400
    ELSE IF upload.filename = <<>> THEN 400
    ELSE IF ~ExtensionAllowed(upload.filename) THEN 400
    ELSE IF TooLarge(upload.size) THEN 413
    ELSE 0

-----------------------------------------------------------------------------
(* GenerativeVisionBackend: services/gemini_service.py.                    *)

\* What the external service does with one request.
GeminiResponses ==
    { "transport_error",   \* generate_content (or Image.open) raises
      "bad_json",          \* the text is not JSON
      "not_object",        \* JSON, but not an object: result.get raises
      "food",              \* {"success": true, meal_name, nutrients, ...}
      "food_incomplete",   \* {"success": true} without meal_name or nutrients
      "no_food" }          \* {"success": false, "error": ...}

\* GeminiService.is_ready
IsReady(gs) == gs = "ready"

\* A variant of GeminiService.analyze_food_image without the except clause
\* for JSONDecodeError: text that is not JSON raises like any other failure.
AnalyzeFoodImageWithoutDecodeCatch(gs, resp) ==
    IF ~IsReady(gs) THEN [raised |-> TRUE, result |-> None]
    ELSE CASE resp \in {"transport_error", "not_object", "food_incomplete", "bad_json"} ->
                [raised |-> TRUE, result |-> None]
           [] resp = "no_food" ->
                [raised |-> FALSE,
                 result |-> [success |-> FALSE,
                             error |-> "Unable to identify the food from the image",
                             confidence_percentage |-> 0]]
           [] resp = "food" ->
                [raised |-> FALSE,
                 result |-> [success |-> TRUE,
                             meal_name |-> "meal",
                             confidence_percentage |-> 50]]

\* GeminiService.analyze_food_image: [raised, result]
AnalyzeFoodImage(gs, resp) ==
    IF ~IsReady(gs) THEN [raised |-> TRUE, result |-> None]
    ELSE CASE resp = "transport_error" -> [raised |-> TRUE, result |-> None]
           [] resp = "not_object"      -> [raised |-> TRUE, result |-> None]
           [] resp = "food_incomplete" -> [raised |-> TRUE, result |-> None]
           [] resp = "bad_json" ->
                [raised |-> FALSE,
                 result |-> [success |-> FALSE,
                             error |-> "Cannot detect food in the image",
                             confidence_percentage |-> 0]]
           [] resp = "no_food" ->
                [raised |-> FALSE,
                 result |-> [success |-> FALSE,
                             error |-> "Unable to identify the food from the image",
                             confidence_percentage |-> 0]]
           [] resp = "food" ->
                [raised |-> FALSE,
                 result |-> [success |-> TRUE,
                             meal_name |-> "meal",
                             confidence_percentage |-> 50]]

-----------------------------------------------------------------------------
(* LocalInferenceBackend: services/ml_service.py.                          *)

\* An MLModelService object: which of its two models are loaded.
MLServices == [food_classifier_model : BOOLEAN, nutrient_model : BOOLEAN]

\* MLModelService.is_model_ready
IsModelReady(svc) == svc.nutrient_model \/ svc.food_classifier_model

\* get_ml_service: the global when it is set, else init_ml_service, which
\* constructs the service (init = the object built, None when the
\* constructor raises) and raises when that fails.
GetMlService(ms, init) ==
    IF ms # None THEN [raised |-> FALSE, service |-> ms]
    ELSE IF init = None THEN [raised |-> TRUE, service |-> None]
    ELSE [raised |-> FALSE, service |-> init]

\* MLModelService.classify_food: every exception becomes a soft failure
ClassifyFood(svc, out) ==
    IF ~svc.food_classifier_model
    THEN [success |-> FALSE, error |-> "Food classifier model not initialized"]
    ELSE IF out = "error"
    THEN [success |-> FALSE, error |-> "classification error"]
    ELSE [success |-> TRUE, is_food |-> TRUE]

\* MLModelService.predict_nutrients: every exception becomes a soft failure
PredictNutrients(svc, out) ==
    IF ~svc.nutrient_model
    THEN [success |-> FALSE, error |-> "Nutrient model not initialized"]
    ELSE IF out = "error"
    THEN [success |-> FALSE, error |-> "nutrient prediction error"]
    ELSE [success |-> TRUE, nutrients |-> [estimated |-> TRUE]]

-----------------------------------------------------------------------------
(* PredictionOrchestrator: PredictionService.predict_food.                 *)

\* What the backends will do with one image.
\*   gemini : the external service's response
\*   ml_init: what init_ml_service builds if get_ml_service has to call it
\*   cls,nut: whether the model's forward pass works on the image
Envs ==
    [gemini : GeminiResponses, ml_init : MLServices \cup {None},
     cls : {"ok", "error"}, nut : {"ok", "error"}]

\* The body of the first try block (lines 33-59): exc is the exception
\* leaving the body.
GeminiTry(gs, env) ==
    IF gs # "None" /\ IsReady(gs) THEN
        LET a == AnalyzeFoodImage(gs, env.gemini) IN
        IF a.raised THEN
            [exc |-> TRUE, available |-> TRUE, prediction |-> None,
             errors |-> <<>>, calls |-> {"gemini"}]
        ELSE IF a.result.success THEN
            [exc |-> FALSE, available |-> TRUE,
             prediction |-> [meal_name |-> a.result.meal_name,
                             confidence_percentage |-> a.result.confidence_percentage],
             errors |-> <<>>, calls |-> {"gemini"}]
        ELSE
            [exc |-> FALSE, available |-> TRUE, prediction |-> None,
             errors |-> <<[service |-> "gemini", error |-> a.result.error]>>,
             calls |-> {"gemini"}]
    ELSE
        [exc |-> FALSE, available |-> FALSE, prediction |-> None,
         errors |-> <<[service |-> "gemini", error |-> "Gemini service not available"]>>,
         calls |-> {}]

\* except Exception (lines 60-65)
CatchGeminiReraise(body) == body
CatchGemini(body) ==
    IF body.exc
    THEN [body EXCEPT !.exc = FALSE,
                      !.errors = Append(@, [service |-> "gemini", error |-> "exception"])]
    ELSE body

\* The errors of lines 91-101, one per local call without a usable result.
MlErrorsMerged(c, n) ==
    IF (c = None \/ ~c.success) \/ (n = None \/ ~n.success)
    THEN <<[service |-> "ml", error |-> "Model not available"]>>
    ELSE <<>>
MlErrors(c, n) ==
    (IF c = None \/ ~c.success
     THEN <<[service |-> "ml_classification",
             error |-> IF c # None THEN c.error ELSE "Model not available"]>>
     ELSE <<>>)
    \o
    (IF n = None \/ ~n.success
     THEN <<[service |-> "ml_nutrients",
             error |-> IF n # None THEN n.error ELSE "Model not available"]>>
     ELSE <<>>)

\* The body of the second try block (lines 69-107).
MlTry(ms, env) ==
    LET got == GetMlService(ms, env.ml_init) IN
    IF got.raised THEN
        [exc |-> TRUE, available |-> FALSE, prediction |-> None, errors |-> <<>>,
         calls |-> {"ml"}, service |-> got.service]
    ELSE IF got.service = None THEN
        [exc |-> FALSE, available |-> FALSE, prediction |-> None,
         errors |-> <<[service |-> "ml", error |-> "ML service not available"]>>,
         calls |-> {"ml"}, service |-> got.service]
    ELSE
        LET svc == got.service
            c == IF svc.food_classifier_model THEN ClassifyFood(svc, env.cls) ELSE None
            n == IF svc.nutrient_model THEN PredictNutrients(svc, env.nut) ELSE None
        IN  [exc |-> FALSE, available |-> TRUE,
             prediction |->
                 [classification |-> IF c # None /\ c.success THEN c ELSE None,
                  nutrients |-> IF n # None /\ n.success THEN n.nutrients ELSE None],
             errors |-> MlErrors(c, n),
             calls |-> {"ml"}, service |-> svc]

\* except Exception (lines 108-113)
CatchMl(body) ==
    IF body.exc
    THEN [body EXCEPT !.exc = FALSE,
                      !.errors = Append(@, [service |-> "ml", error |-> "exception"])]
    ELSE body

\* Lines 116-121, with Python's `or` and `and`: the value is that of the
\* operand that decides it, so it is None when there is no ml_prediction.
\* The flag is one of "True", "False", "None".
OverallSuccessConjunctive(gp, mp) ==
    IF gp # None /\ mp # None /\ mp.classification # None /\ mp.nutrients # None
    THEN "True" ELSE "False"
OverallSuccess(gp, mp) ==
    IF gp # None THEN "True"
    ELSE IF mp = None THEN "None"
    ELSE IF mp.classification # None \/ mp.nutrients # None THEN "True"
    ELSE "False"

\* A variant of bool(v) that takes everything but False for true.
TruthyUnlessFalse(v) == v # "False"

\* bool(v)
Truthy(v) == v = "True"

\* predict_food: [raised, report, calls, ml_service]; ml_service is the
\* module global as get_ml_service leaves it.
PredictFood(gs, ms, env) ==
    LET g == CatchGemini(GeminiTry(gs, env)) IN
    IF g.exc THEN [raised |-> TRUE, report |-> None, calls |-> g.calls, ml_service |-> ms]
    ELSE
    LET m == CatchMl(MlTry(ms, env)) IN
    IF m.exc THEN [raised |-> TRUE, report |-> None, calls |-> g.calls \cup m.calls,
                   ml_service |-> m.service]
    ELSE
        [raised |-> FALSE,
         report |-> [success |-> OverallSuccess(g.prediction, m.prediction),
                     gemini_prediction |-> g.prediction,
                     ml_prediction |-> m.prediction,
                     gemini_available |-> g.available,
                     ml_available |-> m.available,
                     errors |-> g.errors \o m.errors],
         calls |-> g.calls \cup m.calls,
         ml_service |-> m.service]


-----------------------------------------------------------------------------
(* ImageStagingStore: services/cloudinary_service.py.  A public id is      *)
(* <<folder, name, timestamp>>.                                            *)

NoImage == <<>>

\* CloudinaryService.upload_image: the object is stored under folder/public_id
\* (replacing what was there) unless the store fails; no exception leaves it.
\* ok is whether the store accepts the request: [success, public_id, cloud]
UploadImage(store, id, ok) ==
    IF ok THEN [success |-> TRUE, public_id |-> id, cloud |-> store \cup {id}]
    ELSE [success |-> FALSE, public_id |-> NoImage, cloud |-> store]

\* CloudinaryService.move_image: uploader.rename moves the object when the
\* source exists, the target is free and the store accepts the request;
\* every error comes back as success = False.
MoveImage(store, from_public_id, to_public_id, ok) ==
    IF ok /\ from_public_id \in store /\ to_public_id \notin store
    THEN [success |-> TRUE, public_id |-> to_public_id,
          cloud |-> (store \ {from_public_id}) \cup {to_public_id}]
    ELSE [success |-> FALSE, public_id |-> NoImage, cloud |-> store]

\* CloudinaryService.delete_image: uploader.destroy; True only when the
\* store answers 'ok', which it does for an object it holds.
DeleteImage(store, public_id, ok) ==
    IF ok /\ public_id \in store
    THEN [success |-> TRUE, cloud |-> store \ {public_id}]
    ELSE [success |-> FALSE, cloud |-> store]

\* CloudinaryService.get_image_url: the delivery URL of a public id, which
\* names the object whether or not the store holds it.
GetImageUrl(public_id) == public_id

-----------------------------------------------------------------------------
(* MealPersistenceService: models/user_meal.py.                            *)

VALID_MEAL_TYPES ==
    { <<"b", "r", "e", "a", "k", "f", "a", "s", "t">>,
      <<"l", "u", "n", "c", "h">>,
      <<"d", "i", "n", "n", "e", "r">>,
      <<"s", "n", "a", "c", "k", "s">>,
      <<"d", "r", "i", "n", "k", "s">>,
      <<"d", "e", "s", "s", "e", "r", "t">>,
      <<"u", "n", "l", "a", "b", "e", "l", "e", "d">>,
      <<"o", "t", "h", "e", "r">> }

Other == <<"o", "t", "h", "e", "r">>

\* bool(v) of a JSON value
Falsy(v) ==
    \/ v.t = "null"
    \/ v.t = "str" /\ Len(v.v) = 0
    \/ v.t = "num" /\ v.n = 0
    \/ v.t = "dict" /\ DOMAIN v.d = {}

\* str(v) of a JSON string or of a number 0..9
Digits == <<"0", "1", "2", "3", "4", "5", "6", "7", "8", "9">>
Str(v) == IF v.t = "str" THEN v.v ELSE <<Digits[v.n + 1]>>

\* food_type.lower().strip(), looked up in VALID_MEAL_TYPES
Normalize(s) ==
    IF Strip(Lower(s)) \in VALID_MEAL_TYPES THEN Strip(Lower(s)) ELSE Other

\* UserMeal._validate_food_type: [raised, value]; what is not None is taken
\* for a string, and .lower() raises on anything else.
ValidateFoodType(food_type) ==
    IF food_type.t = "null" THEN [raised |-> FALSE, value |-> Other]
    ELSE IF food_type.t = "str"
    THEN [raised |-> FALSE, value |-> Normalize(food_type.v)]
    ELSE [raised |-> TRUE, value |-> Other]

\* UserMeal.create_meal: the constructor, to_dict and insert_one, every
\* exception turned into success = False.  db_ok is whether the insert
\* works.  [success, meal_id, meal]
CreateMealRequiresImage(user_id, nutrients, image_url, image_public_id, meal_name, notes, food_type, prediction_source, user_edited, db_ok) ==
    LET ft == ValidateFoodType(food_type) IN
    IF ft.raised \/ ~db_ok \/ image_public_id = NoImage THEN [success |-> FALSE, meal_id |-> 0, meal |-> None]
    ELSE [success |-> TRUE,
          meal_id |-> next_id,
          meal |-> [user_id |-> user_id,
                    nutrients |-> nutrients,
                    image_url |-> image_url,
                    image_public_id |-> image_public_id,
                    meal_name |-> meal_name,
                    notes |-> notes,
                    food_type |-> ft.value,
                    prediction_source |-> prediction_source,
                    user_edited |-> user_edited,
                    meal_datetime |-> now,
                    created_at |-> now,
                    updated_at |-> now]]
CreateMeal(user_id, nutrients, image_url, image_public_id, meal_name, notes, food_type, prediction_source, user_edited, db_ok) ==
    LET ft == ValidateFoodType(food_type) IN
    IF ft.raised \/ ~db_ok THEN [success |-> FALSE, meal_id |-> 0, meal |-> None]
    ELSE [success |-> TRUE,
          meal_id |-> next_id,
          meal |-> [user_id |-> user_id,
                    nutrients |-> nutrients,
                    image_url |-> image_url,
                    image_public_id |-> image_public_id,
                    meal_name |-> meal_name,
                    notes |-> notes,
                    food_type |-> ft.value,
                    prediction_source |-> prediction_source,
                    user_edited |-> user_edited,
                    meal_datetime |-> now,
                    created_at |-> now,
                    updated_at |-> now]]

\* insert_one: the collection with the document under a new _id
Insert(meals, id, doc) == [i \in DOMAIN meals \cup {id} |-> IF i = id THEN doc ELSE meals[i]]

\* The $set document of UserMeal.update_meal (lines 235-274) for the request
\* body update_dict; a key that is absent reads as null.
UpdateData(update_dict) ==
    LET mn == update_dict.meal_name
        nt == update_dict.notes
        ft == update_dict.food_type
        nu == update_dict.nutrients
    IN  [updated_at |-> <<now>>,
         user_edited |-> <<TRUE>>,
         meal_name |->
             IF mn.t = "null" THEN <<>>
             ELSE IF mn.t = "dict"
             THEN <<JStr(IF "meal_name" \in DOMAIN mn.d
                         THEN Strip(Str(mn.d["meal_name"])) ELSE <<>>)>>
             ELSE <<JStr(Strip(Str(mn)))>>,
         notes |->
             IF nt.t = "null" THEN <<>>
             ELSE IF nt.t = "dict"
             THEN <<JStr(IF "notes" \in DOMAIN nt.d
                         THEN Strip(Str(nt.d["notes"])) ELSE <<>>)>>
             ELSE <<JStr(Strip(Str(nt)))>>,
         food_type |->
             IF ft.t = "null" THEN <<>>
             ELSE IF ft.t = "dict"
             THEN <<IF "food_type" \in DOMAIN ft.d
                    THEN Normalize(Str(ft.d["food_type"])) ELSE Other>>
             ELSE <<Normalize(Str(ft))>>,
         nutrients |->
             IF nu.t = "dict" THEN <<nu>> ELSE <<>>]

SetFieldsDroppingNotes(doc, set) ==
    [doc EXCEPT
        !.updated_at = IF set.updated_at # <<>> THEN set.updated_at[1] ELSE @,
        !.user_edited = IF set.user_edited # <<>> THEN set.user_edited[1] ELSE @,
        !.meal_name = IF set.meal_name # <<>> THEN set.meal_name[1] ELSE @,
        !.notes = IF set.notes # <<>> THEN set.notes[1] ELSE JStr(<<>>),
        !.food_type = IF set.food_type # <<>> THEN set.food_type[1] ELSE @,
        !.nutrients = IF set.nutrients # <<>> THEN set.nutrients[1] ELSE @]

SetFieldsEditedIfSet(doc, set) ==
    [doc EXCEPT
        !.updated_at = IF set.updated_at # <<>> THEN set.updated_at[1] ELSE @,
        !.user_edited = IF set.meal_name # <<>> THEN set.user_edited[1] ELSE @,
        !.meal_name = IF set.meal_name # <<>> THEN set.meal_name[1] ELSE @,
        !.notes = IF set.notes # <<>> THEN set.notes[1] ELSE @,
        !.food_type = IF set.food_type # <<>> THEN set.food_type[1] ELSE @,
        !.nutrients = IF set.nutrients # <<>> THEN set.nutrients[1] ELSE @]

\* update_one(query, {'$set': update_data}) on one document: each field of
\* update_data (a one-element tuple when set) replaces the document's.
SetFields(doc, set) ==
    [doc EXCEPT
        !.updated_at = IF set.updated_at # <<>> THEN set.updated_at[1] ELSE @,
        !.user_edited = IF set.user_edited # <<>> THEN set.user_edited[1] ELSE @,
        !.meal_name = IF set.meal_name # <<>> THEN set.meal_name[1] ELSE @,
        !.notes = IF set.notes # <<>> THEN set.notes[1] ELSE @,
        !.food_type = IF set.food_type # <<>> THEN set.food_type[1] ELSE @,
        !.nutrients = IF set.nutrients # <<>> THEN set.nutrients[1] ELSE @]

\* The query {_id, user_id} matches a document.
Matches(meals, meal_id, user_id) ==
    meal_id \in DOMAIN meals /\ meals[meal_id].user_id = user_id

\* A variant of UserMeal.update_meal that passes every key of the body that
\* names a field of the document on to $set.
UpdateMealSettingEveryKey(meals, meal_id, user_id, update_dict) ==
    IF update_dict = None
    THEN [success |-> FALSE, error |-> "exception", meals |-> meals]
    ELSE IF ~Matches(meals, meal_id, user_id)
    THEN [success |-> FALSE, error |-> "Meal not found", meals |-> meals]
    ELSE LET doc == SetFields(meals[meal_id], UpdateData(update_dict))
             own == {"meal_name", "notes", "food_type", "nutrients"}
         IN  [success |-> TRUE, error |-> "",
              meals |-> [meals EXCEPT ![meal_id] =
                            [f \in DOMAIN doc |->
                                IF f \in DOMAIN update_dict \ own
                                THEN update_dict[f] ELSE doc[f]]]]

\* UserMeal.update_meal: [success, error, meals]; update_dict is None when
\* the request has no JSON body, and `in` raises on it.
UpdateMeal(meals, meal_id, user_id, update_dict) ==
    IF update_dict = None
    THEN [success |-> FALSE, error |-> "exception", meals |-> meals]
    ELSE IF ~Matches(meals, meal_id, user_id)
    THEN [success |-> FALSE, error |-> "Meal not found", meals |-> meals]
    ELSE [success |-> TRUE, error |-> "",
          meals |-> [meals EXCEPT ![meal_id] = SetFields(@, UpdateData(update_dict))]]

\* A variant of UserMeal.get_meal_by_id that returns the four core nutrients
\* only, 0 for one the meal does not have.
GetMealByIdCoreNutrients(meals, meal_id, user_id) ==
    IF Matches(meals, meal_id, user_id)
    THEN [success |-> TRUE, error |-> "",
          meal |-> [meals[meal_id] EXCEPT !.nutrients =
                       JDict([n \in {"Calories", "Protein (g)", "Carbs (g)", "Fat (g)"} |->
                                  IF @.t = "dict" /\ n \in DOMAIN @.d THEN @.d[n] ELSE 0])]]
    ELSE [success |-> FALSE, error |-> "Meal not found", meal |-> None]

\* UserMeal.get_meal_by_id: find_one by _id and, the user id being given,
\* by user_id: [success, error, meal]
GetMealById(meals, meal_id, user_id) ==
    IF Matches(meals, meal_id, user_id)
    THEN [success |-> TRUE, error |-> "", meal |-> meals[meal_id]]
    ELSE [success |-> FALSE, error |-> "Meal not found", meal |-> None]

\* delete_one: the collection without the document
Remove(meals, id) == [i \in DOMAIN meals \ {id} |-> meals[i]]

\* UserMeal.delete_meal: find_one and delete_one by _id and user_id; the
\* result carries the image_public_id of the document that was removed.
\* [success, error, image_public_id, meals]
DeleteMeal(meals, meal_id, user_id) ==
    IF Matches(meals, meal_id, user_id)
    THEN [success |-> TRUE, error |-> "",
          image_public_id |-> meals[meal_id].image_public_id,
          meals |-> Remove(meals, meal_id)]
    ELSE [success |-> FALSE, error |-> "Meal not found",
          image_public_id |-> NoImage, meals |-> meals]

\* The four fields of the aggregation, by the key of the summary they fill.
SummaryFields ==
    [calories |-> "Calories", protein |-> "Protein (g)",
     carbs |-> "Carbs (g)", fat |-> "Fat (g)"]

\* $match: the meals of the user whose meal_datetime lies in the range; a
\* bound is None or the datetime [at |-> t] and a bound that is None is not
\* applied.
MatchStage(meals, user_id, start_date, end_date) ==
    {i \in DOMAIN meals :
        /\ meals[i].user_id = user_id
        /\ start_date # None => meals[i].meal_datetime >= start_date.at
        /\ end_date # None => meals[i].meal_datetime <= end_date.at}

\* The matched meals whose nutrients hold a number under the field: $sum and
\* $avg pass over a document in which the field is missing.
WithField(meals, ids, field) ==
    {i \in ids : /\ meals[i].nutrients.t = "dict"
                 /\ field \in DOMAIN meals[i].nutrients.d}

\* $sum of the field over the meals that have it.
RECURSIVE SumField(_, _, _)
SumField(meals, ids, field) ==
    IF ids = {} THEN 0
    ELSE LET i == CHOOSE j \in ids : TRUE
         IN  meals[i].nutrients.d[field] + SumField(meals, ids \ {i}, field)

\* round(num / den, 2) in hundredths, ties to the even hundredth.
Round2(num, den) ==
    LET q == (100 * num) \div den
        r == (100 * num) % den
    IN  IF 2 * r > den THEN q + 1
        ELSE IF 2 * r < den THEN q
        ELSE IF q % 2 = 0 THEN q ELSE q + 1

\* $avg of the field, rounded, in hundredths: the mean over the meals that
\* have the field, and null (None) when no matched meal has it.
AvgField(meals, ids, field) ==
    LET with == WithField(meals, ids, field) IN
    IF with = {} THEN None
    ELSE Round2(SumField(meals, with, field), Cardinality(with))

\* A variant of UserMeal.get_nutrition_summary without the branch for an
\* empty aggregation result: the averages of no meals are null.
GetNutritionSummaryWithoutEmptyBranch(meals, user_id, start_date, end_date) ==
    LET ids == MatchStage(meals, user_id, start_date, end_date)
        keys == DOMAIN SummaryFields
    IN  IF \E k \in keys : WithField(meals, ids, SummaryFields[k]) = {}
        THEN [success |-> FALSE, error |-> "TypeError", summary |-> None]
        ELSE [success |-> TRUE, error |-> "",
              summary |->
                [total_nutrients |->
                     [k \in keys |->
                          SumField(meals, WithField(meals, ids, SummaryFields[k]),
                                   SummaryFields[k])],
                 average_nutrients |->
                     [k \in keys |-> AvgField(meals, ids, SummaryFields[k])],
                 meal_count |-> Cardinality(ids)]]

\* UserMeal.get_nutrition_summary: [success, error, summary]. Totals are in
\* units, averages in hundredths. With no matching meal the summary is all
\* zero; with matching meals none of which has one of the fields, round(None, 2)
\* raises and the except block answers the failure.
GetNutritionSummary(meals, user_id, start_date, end_date) ==
    LET ids == MatchStage(meals, user_id, start_date, end_date)
        keys == DOMAIN SummaryFields
        zero == [k \in keys |-> 0]
    IN  IF ids = {}
        THEN [success |-> TRUE, error |-> "",
              summary |-> [total_nutrients |-> zero, average_nutrients |-> zero,
                           meal_count |-> 0]]
        ELSE IF \E k \in keys : WithField(meals, ids, SummaryFields[k]) = {}
        THEN [success |-> FALSE, error |-> "TypeError", summary |-> None]
        ELSE [success |-> TRUE, error |-> "",
              summary |->
                [total_nutrients |->
                     [k \in keys |->
                          SumField(meals, WithField(meals, ids, SummaryFields[k]),
                                   SummaryFields[k])],
                 average_nutrients |->
                     [k \in keys |-> AvgField(meals, ids, SummaryFields[k])],
                 meal_count |-> Cardinality(ids)]]

\* UserMeal.get_food_type_summary: [success, error, summary]; the matched
\* meals are grouped by food_type (a falsy one under 'other') and each group
\* is summed and averaged as in get_nutrition_summary.  A group none of whose
\* meals has one of the fields makes round(None, 2) raise.
GetFoodTypeSummary(meals, user_id, start_date, end_date) ==
    LET ids == MatchStage(meals, user_id, start_date, end_date)
        key(i) == IF meals[i].food_type = <<>> THEN Other ELSE meals[i].food_type
        types == {key(i) : i \in ids}
        group(t) == {i \in ids : key(i) = t}
        keys == DOMAIN SummaryFields
    IN  IF \E t \in types, k \in keys : WithField(meals, group(t), SummaryFields[k]) = {}
        THEN [success |-> FALSE, error |-> "TypeError", summary |-> None]
        ELSE [success |-> TRUE, error |-> "",
              summary |->
                [t \in types |->
                   [total_nutrients |->
                        [k \in keys |->
                             SumField(meals, WithField(meals, group(t), SummaryFields[k]),
                                      SummaryFields[k])],
                    average_nutrients |->
                        [k \in keys |-> AvgField(meals, group(t), SummaryFields[k])],
                    meal_count |-> Cardinality(group(t))]]]

-----------------------------------------------------------------------------
(* The prediction endpoints.                                               *)

\* A response and, for the record, the request it answers: the status, the
\* backends invoked while handling it, the image id and the meal id returned.
Response(handler, request, status, calls, image) ==
    [handler |-> handler, request |-> request, status |-> status, calls |-> calls,
     image_public_id |-> image, meal_id |-> 0, promoted |-> FALSE]

\* PredictionController.predict_food (POST /predict).
\*   upload   : [present, filename, size], the multipart file
\*   topk_ok  : whether the form's topk parses as an int
\*   env      : what the backends do with the image
\*   store_ok : whether the image store accepts the staging upload
PredictFoodHandler(upload, topk_ok, env, store_ok) ==
    LET v == ValidateUpload(upload) IN
    IF v # 0 THEN
        /\ response' = Response("predict_food", upload, v, {}, NoImage)
        /\ result' = None
        /\ UNCHANGED <<ml_service, cloud>>
    ELSE IF ~topk_ok THEN
        /\ response' = Response("predict_food", upload, 500, {}, NoImage)
        /\ result' = None
        /\ UNCHANGED <<ml_service, cloud>>
    ELSE
        LET p == PredictFood(gemini_service, ml_service, env) IN
        /\ ml_service' = p.ml_service
        /\ result' = [call |-> [gs |-> gemini_service, ms |-> ml_service, env |-> env],
                      raised |-> p.raised, report |-> p.report]
        /\ IF p.raised THEN
               /\ response' = Response("predict_food", upload, 500, p.calls, NoImage)
               /\ UNCHANGED cloud
           ELSE IF ~Truthy(p.report.success) THEN
               /\ response' = Response("predict_food", upload, 503, p.calls, NoImage)
               /\ UNCHANGED cloud
           ELSE
               LET id == <<"temp_meals", <<"temp_">> \o FirstSegment(upload.filename), now>>
                   up == UploadImage(cloud, id, store_ok)
               IN  /\ cloud' = up.cloud
                   /\ response' = Response("predict_food", upload, 200, p.calls, up.public_id)

\* NutrientController.predict_nutrients_only (POST /predict-only).
\*   rand : the random suffix of the staging id
PredictNutrientsOnlyHandler(upload, env, store_ok, rand) ==
    LET v == ValidateUpload(upload) IN
    IF v # 0 THEN
        /\ response' = Response("predict_nutrients_only", upload, v, {}, NoImage)
        /\ result' = None
        /\ UNCHANGED <<ml_service, cloud>>
    ELSE
        LET got == GetMlService(ml_service, env.ml_init) IN
        /\ ml_service' = got.service
        /\ result' = None
        /\ IF got.raised \/ ~IsModelReady(got.service) THEN
               /\ response' = Response("predict_nutrients_only", upload, 503, {"ml"}, NoImage)
               /\ UNCHANGED cloud
           ELSE IF ~PredictNutrients(got.service, env.nut).success THEN
               /\ response' = Response("predict_nutrients_only", upload, 500, {"ml"}, NoImage)
               /\ UNCHANGED cloud
           ELSE
               LET id == <<"temp_meals", <<"temp_meal_", rand>>, now>>
                   up == UploadImage(cloud, id, store_ok)
               IN  /\ cloud' = up.cloud
                   /\ response' = Response("predict_nutrients_only", upload, 200, {"ml"},
                                           up.public_id)

\* The strings a save accepts as selected_prediction
PredictionSources ==
    { <<"g", "e", "m", "i", "n", "i">>, <<"m", "l">>, <<"m", "a", "n", "u", "a", "l">> }

\* PredictionController.save_predicted_meal (POST /save-meal).
\*   data    : the JSON body, None when there is none; a key that is absent
\*             reads as null, temp_image_public_id as NoImage
\*   move_ok : whether the image store accepts the rename
\*   db_ok   : whether the insert works
SavePredictedMealHandler(user_id, data, move_ok, db_ok) ==
    LET request == [user_id |-> user_id, data |-> data]
        reject(status) ==
            /\ response' = Response("save_predicted_meal", request, status, {}, NoImage)
            /\ UNCHANGED <<cloud, user_meals, next_id, promotions>>
    IN
    IF data = None THEN reject(400)
    ELSE IF \/ Falsy(data.selected_prediction)
            \/ data.selected_prediction.t # "str"
            \/ data.selected_prediction.v \notin PredictionSources
    THEN reject(400)
    ELSE IF Falsy(data.food_type) THEN reject(400)
    ELSE IF Falsy(data.meal_name) THEN reject(400)
    ELSE IF Falsy(data.nutrients) THEN reject(400)
    ELSE
        LET temp == data.temp_image_public_id
            mv == MoveImage(cloud, temp, <<"meals", user_id, now>>, move_ok)
            image_public_id ==
                IF temp = NoImage THEN NoImage
                ELSE IF mv.success THEN mv.public_id
                ELSE temp
            image_url ==
                IF temp = NoImage THEN NoImage
                ELSE IF mv.success THEN mv.public_id
                ELSE GetImageUrl(temp)
            cm == CreateMeal(user_id, data.nutrients, image_url, image_public_id,
                             data.meal_name, data.notes, data.food_type,
                             data.selected_prediction, data.user_edited, db_ok)
        IN  /\ cloud' = IF temp = NoImage THEN cloud ELSE mv.cloud
            /\ IF cm.success
               THEN /\ user_meals' = Insert(user_meals, cm.meal_id, cm.meal)
                    /\ next_id' = next_id + 1
                    /\ promotions' = IF temp = NoImage THEN promotions
                                     ELSE Append(promotions,
                                                 [temp |-> temp,
                                                  image_public_id |-> image_public_id,
                                                  store_ok |-> move_ok])
                    /\ response' = [Response("save_predicted_meal", request, 201, {},
                                             image_public_id)
                                    EXCEPT !.meal_id = cm.meal_id,
                                           !.promoted = temp # NoImage /\ mv.success]
               ELSE /\ response' = Response("save_predicted_meal", request, 500, {},
                                            NoImage)
                    /\ UNCHANGED <<user_meals, next_id, promotions>>

\* NutrientController.save_meal (POST /save).
\*   upload_ok : whether the image store accepts the upload from the staged URL
\*   delete_ok : whether it accepts the removal of the staged object
SaveMealHandler(user_id, data, upload_ok, delete_ok, db_ok) ==
    LET request == [user_id |-> user_id, data |-> data]
        reject(status) ==
            /\ response' = Response("save_meal", request, status, {}, NoImage)
            /\ UNCHANGED <<cloud, user_meals, next_id, promotions>>
    IN
    IF data = None THEN reject(400)
    ELSE IF Falsy(data.nutrients) THEN reject(400)
    ELSE IF Falsy(data.food_type) THEN reject(400)
    ELSE
        LET temp == data.temp_image_public_id
            up == UploadImage(cloud, <<"user_meals", user_id, now>>,
                              upload_ok /\ temp \in cloud)
            del == DeleteImage(up.cloud, temp, delete_ok)
            image_public_id == IF temp = NoImage THEN NoImage ELSE up.public_id
            cm == CreateMeal(user_id, data.nutrients, image_public_id, image_public_id,
                             data.meal_name, data.notes, data.food_type,
                             JNull, FALSE, db_ok)
        IN  /\ cloud' = IF temp = NoImage THEN cloud
                        ELSE IF up.success THEN del.cloud
                        ELSE up.cloud
            /\ IF cm.success
               THEN /\ user_meals' = Insert(user_meals, cm.meal_id, cm.meal)
                    /\ next_id' = next_id + 1
                    /\ promotions' = IF temp = NoImage THEN promotions
                                     ELSE Append(promotions,
                                                 [temp |-> temp,
                                                  image_public_id |-> image_public_id,
                                                  store_ok |-> upload_ok /\ delete_ok])
                    /\ response' = [Response("save_meal", request, 201, {}, image_public_id)
                                    EXCEPT !.meal_id = cm.meal_id,
                                           !.promoted = temp # NoImage /\ up.success]
               ELSE /\ response' = Response("save_meal", request, 500, {}, NoImage)
                    /\ UNCHANGED <<user_meals, next_id, promotions>>

\* PredictionController.update_meal (PUT /meals/<meal_id>).
UpdateMealHandler(meal_id, user_id, data) ==
    LET request == [user_id |-> user_id, meal_id |-> meal_id, data |-> data]
        um == UpdateMeal(user_meals, meal_id, user_id, data)
    IN  /\ user_meals' = um.meals
        /\ response' = [Response("update_meal", request,
                                 IF um.success THEN 200 ELSE 400, {}, NoImage)
                        EXCEPT !.meal_id = IF um.success THEN meal_id ELSE 0]
        /\ UNCHANGED <<cloud, next_id, promotions>>

\* NutrientController.update_meal (PUT /meal/<meal_id>): it calls
\* UserMeal.update_meal(meal_id=, user_id=, meal_name=, notes=, food_type=),
\* keywords the function does not take, so the call raises TypeError and the
\* handler's except answers 500.
NutrientUpdateMealHandler(meal_id, user_id, data) ==
    LET request == [user_id |-> user_id, meal_id |-> meal_id, data |-> data]
        status ==
            IF data = None THEN 400
            ELSE IF /\ data.meal_name.t = "null"
                    /\ data.notes.t = "null"
                    /\ data.food_type.t = "null"
            THEN 400
            ELSE 500
    IN  /\ response' = Response("nutrient_update_meal", request, status, {}, NoImage)
        /\ UNCHANGED <<cloud, user_meals, next_id, promotions>>

\* The response of a lookup or a delete: the body's success flag and error,
\* the data it carries, and what the handler asked of the image store
\* ("none": nothing, "ok": a removal that worked, "failed": one that did not).
MealResponse(handler, meal_id, user_id, status, success, error, data, image, purge) ==
    [success |-> success, error |-> error, data |-> data, purge |-> purge]
        @@ Response(handler, [user_id |-> user_id, meal_id |-> meal_id], status, {}, image)

\* PredictionController.get_meal_by_id (GET /meals/<meal_id>): the result of
\* UserMeal.get_meal_by_id is a dict, never falsy, so `if not meal` is never
\* taken and the result is answered as data with 200.
GetMealByIdHandler(meal_id, user_id) ==
    LET meal == GetMealById(user_meals, meal_id, user_id) IN
    /\ response' = MealResponse("get_meal_by_id", meal_id, user_id, 200, TRUE, "",
                                meal, NoImage, "none")
    /\ UNCHANGED <<cloud, user_meals, next_id, promotions>>

\* NutrientController.get_meal_by_id (GET /meal/<meal_id>).
NutrientGetMealByIdHandler(meal_id, user_id) ==
    LET r == GetMealById(user_meals, meal_id, user_id) IN
    /\ response' = MealResponse("nutrient_get_meal_by_id", meal_id, user_id,
                                IF r.success THEN 200 ELSE 404, r.success, r.error,
                                r.meal, NoImage, "none")
    /\ UNCHANGED <<cloud, user_meals, next_id, promotions>>

\* PredictionController.delete_meal (DELETE /meals/<meal_id>): the image
\* reference in the result of UserMeal.delete_meal is not used.
DeleteMealHandler(meal_id, user_id) ==
    LET r == DeleteMeal(user_meals, meal_id, user_id) IN
    /\ user_meals' = r.meals
    /\ response' = MealResponse("delete_meal", meal_id, user_id,
                                IF r.success THEN 200 ELSE 400, r.success, r.error,
                                None, r.image_public_id, "none")
    /\ UNCHANGED <<cloud, next_id, promotions>>

\* A variant of NutrientController.delete_meal in which a failed removal of
\* the image puts the meal back and fails the request.
NutrientDeleteMealRollsBack(meal_id, user_id, delete_ok) ==
    LET r == DeleteMeal(user_meals, meal_id, user_id)
        purges == r.success /\ r.image_public_id # NoImage
        del == DeleteImage(cloud, r.image_public_id, delete_ok)
        failed == purges /\ ~del.success
    IN  /\ user_meals' = IF failed THEN user_meals ELSE r.meals
        /\ cloud' = IF purges THEN del.cloud ELSE cloud
        /\ response' = MealResponse("nutrient_delete_meal", meal_id, user_id,
                                    IF failed THEN 500
                                    ELSE IF r.success THEN 200 ELSE 404,
                                    r.success /\ ~failed,
                                    IF failed THEN "Internal server error" ELSE r.error,
                                    None, r.image_public_id,
                                    IF ~purges THEN "none"
                                    ELSE IF del.success THEN "ok" ELSE "failed")
        /\ UNCHANGED <<next_id, promotions>>

\* NutrientController.delete_meal (DELETE /meal/<meal_id>): after the meal
\* is removed its image, if it has one, is removed from the store, and a
\* failure of that is logged only.
\*   delete_ok : whether the image store accepts the removal
NutrientDeleteMealHandler(meal_id, user_id, delete_ok) ==
    LET r == DeleteMeal(user_meals, meal_id, user_id)
        purges == r.success /\ r.image_public_id # NoImage
        del == DeleteImage(cloud, r.image_public_id, delete_ok)
    IN  /\ user_meals' = r.meals
        /\ cloud' = IF purges THEN del.cloud ELSE cloud
        /\ response' = MealResponse("nutrient_delete_meal", meal_id, user_id,
                                    IF r.success THEN 200 ELSE 404, r.success, r.error,
                                    None, r.image_public_id,
                                    IF ~purges THEN "none"
                                    ELSE IF del.success THEN "ok" ELSE "failed")
        /\ UNCHANGED <<next_id, promotions>>

\* The answer to a summary request.
SummaryResponse(handler, user_id, start_date, end_date, status, r) ==
    [success |-> r.success, error |-> r.error, data |-> r.summary]
        @@ Response(handler,
                    [user_id |-> user_id, start_date |-> start_date, end_date |-> end_date],
                    status, {}, NoImage)

\* A variant of PredictionController.get_nutrition_summary that answers with
\* the summary as it was before the latest save.
GetNutritionSummaryHandlerStale(user_id, start_date, end_date) ==
    LET r == GetNutritionSummary(Remove(user_meals, next_id - 1), user_id,
                                 start_date, end_date) IN
    /\ response' = SummaryResponse("get_nutrition_summary", user_id, start_date, end_date,
                                   IF r.success THEN 200 ELSE 400, r)
    /\ UNCHANGED <<cloud, user_meals, next_id, promotions>>

\* PredictionController.get_nutrition_summary (GET /meals/summary).
GetNutritionSummaryHandler(user_id, start_date, end_date) ==
    LET r == GetNutritionSummary(user_meals, user_id, start_date, end_date) IN
    /\ response' = SummaryResponse("get_nutrition_summary", user_id, start_date, end_date,
                                   IF r.success THEN 200 ELSE 400, r)
    /\ UNCHANGED <<cloud, user_meals, next_id, promotions>>

\* NutrientController.get_nutrition_summary (GET /nutrition-summary).
NutrientGetNutritionSummaryHandler(user_id, start_date, end_date) ==
    LET r == GetNutritionSummary(user_meals, user_id, start_date, end_date) IN
    /\ response' = SummaryResponse("nutrient_get_nutrition_summary", user_id,
                                   start_date, end_date,
                                   IF r.success THEN 200 ELSE 500, r)
    /\ UNCHANGED <<cloud, user_meals, next_id, promotions>>

\* NutrientController.get_food_type_summary (GET /food-type-summary).
NutrientGetFoodTypeSummaryHandler(user_id, start_date, end_date) ==
    LET r == GetFoodTypeSummary(user_meals, user_id, start_date, end_date) IN
    /\ response' = SummaryResponse("nutrient_get_food_type_summary", user_id,
                                   start_date, end_date,
                                   IF r.success THEN 200 ELSE 500, r)
    /\ UNCHANGED <<cloud, user_meals, next_id, promotions>>

\* The clock advances.
Tick ==
    /\ now < MaxClock
    /\ now' = now + 1
    /\ UNCHANGED <<gemini_service, ml_service, cloud, user_meals, next_id, result,
                   response, promotions, pc, pending>>

-----------------------------------------------------------------------------
(* Requests.                                                               *)

Filenames ==
    { <<"a", ".", "p", "n", "g">>,                      \* a.png
      <<"a", ".", "P", "N", "G">>,                      \* a.PNG
      <<"a", ".", "t", "x", "t">>,                      \* a.txt
      <<"a", ".", "p", "n", "g", ".", "e", "x", "e">>,  \* a.png.exe
      <<"w", "e", "b", "p">>,                           \* webp
      <<"a", ".">>,                                     \* a.
      <<>> }                                            \* the empty filename

Sizes == {max_size, max_size + 1}

AllUploads ==
    [present : {TRUE}, filename : Filenames, size : Sizes]
    \cup [present : {FALSE}, filename : {<<>>}, size : {0}]

\* One upload that passes the validation and one that does not.
FewUploads ==
    { [present |-> TRUE, filename |-> <<"a", ".", "p", "n", "g">>, size |-> max_size],
      [present |-> TRUE, filename |-> <<"a", ".", "p", "n", "g">>, size |-> max_size + 1] }

\* Backends that answer, and one way for each to fail.
FewEnvs ==
    [gemini : {"food", "transport_error"},
     ml_init : {None, [food_classifier_model |-> TRUE, nutrient_model |-> TRUE]},
     cls : {"ok"}, nut : {"ok"}]

\* The outcomes enumerated for a request: those of a backend that the
\* request cannot reach (the generative service is absent, the local service
\* is already built) are fixed to one value.
Reachable(envs, gs, ms) ==
    LET g0 == CHOOSE g \in {x.gemini : x \in envs} : TRUE
        i0 == CHOOSE i \in {x.ml_init : x \in envs} : TRUE
    IN  { e \in envs : /\ ~IsReady(gs) => e.gemini = g0
                       /\ ms # None => e.ml_init = i0 }

OneOf(S) == {CHOOSE x \in S : TRUE}

PredictFoodRequest(uploads, envs) ==
    /\ \E upload \in uploads :
       LET valid == ValidateUpload(upload) = 0 IN
       \E topk_ok \in IF valid THEN BOOLEAN ELSE {TRUE} :
       \E env \in IF valid /\ topk_ok
                  THEN Reachable(envs, gemini_service, ml_service) ELSE OneOf(envs) :
       \E store_ok \in IF valid /\ topk_ok THEN BOOLEAN ELSE {TRUE} :
           PredictFoodHandler(upload, topk_ok, env, store_ok)
    /\ UNCHANGED <<gemini_service, user_meals, next_id, now, promotions, pc, pending>>

PredictNutrientsOnlyRequest(uploads, envs) ==
    /\ \E upload \in uploads :
       LET valid == ValidateUpload(upload) = 0
           c0 == CHOOSE c \in {x.cls : x \in envs} : TRUE
       IN
       \E env \in IF valid
                  THEN {e \in Reachable(envs, "None", ml_service) : e.cls = c0}
                  ELSE OneOf(envs) :
       \E store_ok \in IF valid THEN BOOLEAN ELSE {TRUE} :
       \E rand \in {"1000"} :
           PredictNutrientsOnlyHandler(upload, env, store_ok, rand)
    /\ UNCHANGED <<gemini_service, user_meals, next_id, now, promotions, pc, pending>>

Users == {"u1", "u2"}

\* Request bodies of the save endpoints
SaveBodies(sources, food_types, meal_names, nutrients, temps) ==
    [selected_prediction : sources, food_type : food_types, meal_name : meal_names,
     nutrients : nutrients, notes : {JStr(<<>>)}, temp_image_public_id : temps,
     user_edited : {FALSE}]

\* Request bodies of the update endpoints
UpdateBodies(meal_names, notes, food_types, nutrients) ==
    [meal_name : meal_names, notes : notes, food_type : food_types,
     nutrients : nutrients]

\* Whether a save with this body reaches the image store
ReachesStore(handler, data) ==
    /\ data # None
    /\ data.temp_image_public_id # NoImage
    /\ ~Falsy(data.nutrients)
    /\ ~Falsy(data.food_type)
    /\ handler = "save_predicted_meal" =>
           /\ ~Falsy(data.meal_name)
           /\ data.selected_prediction.t = "str"
           /\ data.selected_prediction.v \in PredictionSources

SavePredictedMealRequest(users, bodies, db_oks, max) ==
    /\ next_id <= max
    /\ \E user_id \in users, data \in bodies, db_ok \in db_oks :
       \E move_ok \in IF ReachesStore("save_predicted_meal", data)
                      THEN BOOLEAN ELSE {TRUE} :
           SavePredictedMealHandler(user_id, data, move_ok, db_ok)
    /\ UNCHANGED <<gemini_service, ml_service, now, result, pc, pending>>

SaveMealRequest(users, bodies, db_oks, max) ==
    /\ next_id <= max
    /\ \E user_id \in users, data \in bodies, db_ok \in db_oks :
       LET store == ReachesStore("save_meal", data) IN
       \E upload_ok \in IF store THEN BOOLEAN ELSE {TRUE} :
       \E delete_ok \in IF store /\ upload_ok THEN BOOLEAN ELSE {TRUE} :
           SaveMealHandler(user_id, data, upload_ok, delete_ok, db_ok)
    /\ UNCHANGED <<gemini_service, ml_service, now, result, pc, pending>>

UpdateMealRequest(users, bodies) ==
    /\ \E user_id \in users, data \in bodies :
       \E meal_id \in DOMAIN user_meals \cup {next_id} :
           UpdateMealHandler(meal_id, user_id, data)
    /\ UNCHANGED <<gemini_service, ml_service, now, result, pc, pending>>

NutrientUpdateMealRequest(users, bodies) ==
    /\ \E user_id \in users, data \in bodies :
       \E meal_id \in DOMAIN user_meals \cup {next_id} :
           NutrientUpdateMealHandler(meal_id, user_id, data)
    /\ UNCHANGED <<gemini_service, ml_service, now, result, pc, pending>>

GetMealByIdRequest(users) ==
    /\ \E user_id \in users, meal_id \in DOMAIN user_meals \cup {next_id} :
           GetMealByIdHandler(meal_id, user_id)
    /\ UNCHANGED <<gemini_service, ml_service, now, result, pc, pending>>

NutrientGetMealByIdRequest(users) ==
    /\ \E user_id \in users, meal_id \in DOMAIN user_meals \cup {next_id} :
           NutrientGetMealByIdHandler(meal_id, user_id)
    /\ UNCHANGED <<gemini_service, ml_service, now, result, pc, pending>>

DeleteMealRequest(users) ==
    /\ \E user_id \in users, meal_id \in DOMAIN user_meals \cup {next_id} :
           DeleteMealHandler(meal_id, user_id)
    /\ UNCHANGED <<gemini_service, ml_service, now, result, pc, pending>>

NutrientDeleteMealRequest(users) ==
    /\ \E user_id \in users, meal_id \in DOMAIN user_meals \cup {next_id} :
       \E delete_ok \in IF /\ Matches(user_meals, meal_id, user_id)
                           /\ user_meals[meal_id].image_public_id # NoImage
                        THEN BOOLEAN ELSE {TRUE} :
           NutrientDeleteMealHandler(meal_id, user_id, delete_ok)
    /\ UNCHANGED <<gemini_service, ml_service, now, result, pc, pending>>

\* The range of a summary request: each bound a time or absent.
Dates == {None} \cup {[at |-> t] : t \in 0..MaxClock}

GetNutritionSummaryRequest(users) ==
    /\ \E user_id \in users, start_date \in Dates, end_date \in Dates :
           GetNutritionSummaryHandler(user_id, start_date, end_date)
    /\ UNCHANGED <<gemini_service, ml_service, now, result, pc, pending>>

NutrientGetNutritionSummaryRequest(users) ==
    /\ \E user_id \in users, start_date \in Dates, end_date \in Dates :
           NutrientGetNutritionSummaryHandler(user_id, start_date, end_date)
    /\ UNCHANGED <<gemini_service, ml_service, now, result, pc, pending>>

NutrientGetFoodTypeSummaryRequest(users) ==
    /\ \E user_id \in users, start_date \in Dates, end_date \in Dates :
           NutrientGetFoodTypeSummaryHandler(user_id, start_date, end_date)
    /\ UNCHANGED <<gemini_service, ml_service, now, result, pc, pending>>

-----------------------------------------------------------------------------
(* The state after create_app: init_ml_service has run and has or has not  *)
(* built the service; init_gemini_service may have run.                    *)

Init ==
    /\ gemini_service \in {"None", "ready"}
    /\ ml_service \in MLServices \cup {None}
    /\ cloud = {}
    /\ user_meals = <<>>
    /\ next_id = 1
    /\ now = 0
    /\ result = None
    /\ response = None
    /\ promotions = <<>>
    /\ pc = "idle"
    /\ pending = None

\* The prediction pipeline under every outcome of its backends.
Next ==
    \/ PredictFoodRequest(FewUploads, Envs)
    \/ PredictNutrientsOnlyRequest(FewUploads, Envs)

Spec == Init /\ [][Next]_vars

\* The upload boundary under every upload.
UploadNext ==
    \/ PredictFoodRequest(AllUploads, FewEnvs)
    \/ PredictNutrientsOnlyRequest(AllUploads, FewEnvs)

UploadSpec == Init /\ [][UploadNext]_vars


\* The meal ledger starts with the backends in one state: its handlers do not
\* read them.
MealInit == Init /\ gemini_service = "None" /\ ml_service = None

\* The food types a client sends: in another case, padded, outside the
\* allowed set, empty, blank, absent, and not a string.
FoodTypes ==
    { JStr(<<"L", "u", "n", "c", "h">>),
      JStr(<<" ", "d", "i", "n", "n", "e", "r", "\n">>),
      JStr(<<"b", "r", "u", "n", "c", "h">>),
      JStr(<<" ">>),
      JStr(<<>>),
      JNull,
      JNum(5) }

OneName == JStr(<<"m">>)
OneSource == JStr(<<"m", "a", "n", "u", "a", "l">>)
OneNutrients == JDict([n \in {"Calories"} |-> 350])

\* Saves and updates that differ in the food type only.
FoodTypeNext ==
    \/ SavePredictedMealRequest({"u1"},
           SaveBodies({OneSource}, FoodTypes, {OneName}, {OneNutrients}, {NoImage}),
           {TRUE}, MaxFoodTypeMeals)
    \/ SaveMealRequest({"u1"},
           SaveBodies({JNull}, FoodTypes, {OneName}, {OneNutrients}, {NoImage}),
           {TRUE}, MaxFoodTypeMeals)
    \/ UpdateMealRequest({"u1"}, UpdateBodies({JNull}, {JNull}, FoodTypes, {JNull}))
    \/ NutrientUpdateMealRequest({"u1"},
           UpdateBodies({JNull}, {JNull}, FoodTypes, {JNull}))

FoodTypeSpec == MealInit /\ [][FoodTypeNext]_vars

\* The nutrients a client sends: positive, negative, zero, empty, absent.
Nutrients ==
    { OneNutrients,
      JDict([n \in {"Calories", "Protein (g)"} |-> IF n = "Calories" THEN 0 - 5 ELSE 35]),
      JDict([n \in {"Calories"} |-> 0]),
      JDict([n \in {} |-> 0]),
      JNull }

OneFoodType == JStr(<<"l", "u", "n", "c", "h">>)

\* Saves and updates that differ in the nutrients only.
NutrientNext ==
    \/ SavePredictedMealRequest({"u1"},
           SaveBodies({OneSource}, {OneFoodType}, {OneName}, Nutrients, {NoImage}),
           {TRUE}, MaxNutrientMeals)
    \/ SaveMealRequest({"u1"},
           SaveBodies({JNull}, {OneFoodType}, {OneName}, Nutrients, {NoImage}),
           {TRUE}, MaxNutrientMeals)
    \/ UpdateMealRequest({"u1"}, UpdateBodies({JNull}, {JNull}, {JNull}, Nutrients))
    \/ NutrientUpdateMealRequest({"u1"},
           UpdateBodies({OneName}, {JNull}, {JNull}, Nutrients))

NutrientSpec == MealInit /\ [][NutrientNext]_vars

\* Staging and promotion: the backends work, and a save carries a staging id
\* that a prediction returned or none.
ImageInit ==
    /\ Init
    /\ gemini_service = "ready"
    /\ ml_service = [food_classifier_model |-> TRUE, nutrient_model |-> TRUE]

OneUpload == {[present |-> TRUE, filename |-> <<"a", ".", "p", "n", "g">>, size |-> max_size]}
OneEnv ==
    {[gemini |-> "food",
      ml_init |-> [food_classifier_model |-> TRUE, nutrient_model |-> TRUE],
      cls |-> "ok", nut |-> "ok"]}

StagingIds ==
    {id \in cloud \cup {promotions[i].temp : i \in DOMAIN promotions} :
        id[1] = "temp_meals"}

ImageNext ==
    \/ PredictFoodRequest(OneUpload, OneEnv)
    \/ SavePredictedMealRequest({"u1"},
           SaveBodies({OneSource}, {OneFoodType}, {OneName}, {OneNutrients},
                      StagingIds \cup {NoImage}),
           {TRUE}, MaxMeals)
    \/ SaveMealRequest({"u1"},
           SaveBodies({JNull}, {OneFoodType}, {OneName}, {OneNutrients},
                      StagingIds \cup {NoImage}),
           {TRUE}, MaxMeals)
    \/ Tick

ImageSpec == ImageInit /\ [][ImageNext]_vars

\* Staging and promotion within one second, the insert working.
PromotionNext ==
    \/ PredictFoodRequest(OneUpload, OneEnv)
    \/ SavePredictedMealRequest({"u1"},
           SaveBodies({OneSource}, {OneFoodType}, {OneName}, {OneNutrients},
                      StagingIds \cup {NoImage}),
           {TRUE}, MaxPromotionMeals)
    \/ SaveMealRequest({"u1"},
           SaveBodies({JNull}, {OneFoodType}, {OneName}, {OneNutrients},
                      StagingIds \cup {NoImage}),
           {TRUE}, MaxPromotionMeals)

PromotionSpec == ImageInit /\ [][PromotionNext]_vars

\* Save bodies that pass and that fail each of the controllers' checks.
Sources == { OneSource, JStr(<<"g", "e", "m", "i", "n", "i">>), JStr(<<"a", "u", "t", "o">>), JNull }

ValidationNext ==
    \/ PredictFoodRequest(OneUpload, OneEnv)
    \/ SavePredictedMealRequest({"u1"},
           SaveBodies(Sources, {OneFoodType, JStr(<<>>), JNull}, {OneName, JNull},
                      {OneNutrients, JDict([n \in {} |-> 0]), JNull},
                      StagingIds \cup {NoImage}) \cup {None},
           {TRUE}, MaxValidationMeals)
    \/ SaveMealRequest({"u1"},
           SaveBodies(Sources, {OneFoodType, JStr(<<>>), JNull}, {OneName, JNull},
                      {OneNutrients, JDict([n \in {} |-> 0]), JNull},
                      StagingIds \cup {NoImage}) \cup {None},
           {TRUE}, MaxValidationMeals)

ValidationSpec == ImageInit /\ [][ValidationNext]_vars

\* Update bodies that supply no field, the notes, the food type, or all four.
Supplied(data) ==
    {f \in {"meal_name", "notes", "food_type", "nutrients"} : data[f].t # "null"}

PartialFields ==
    { b \in UpdateBodies({JNull, JStr(<<" ", "n">>)}, {JNull, JStr(<<"x">>)},
                         {JNull, JStr(<<"D", "i", "n", "n", "e", "r">>)},
                         {JNull, JDict([n \in {"Calories"} |-> 100])}) :
        Supplied(b) \in { {}, {"notes"}, {"food_type"},
                          {"meal_name", "notes", "food_type", "nutrients"} } }

\* Meals saved and updated by one user, while the clock advances.
UpdateNext ==
    \/ SavePredictedMealRequest({"u1"},
           SaveBodies({OneSource}, {OneFoodType}, {OneName}, {OneNutrients}, {NoImage}),
           {TRUE}, MaxUpdateMeals)
    \/ UpdateMealRequest({"u1"}, PartialFields)
    \/ NutrientUpdateMealRequest({"u1"}, {b \in PartialFields : Supplied(b) # {}})
    \/ Tick

UpdateSpec == MealInit /\ [][UpdateNext]_vars

\* Updates whose body also carries keys that are not updatable: the owner,
\* the image reference, the prediction source and the two timestamps.
ExtraKeys ==
    [user_id |-> "u2", image_url |-> <<"x">>, image_public_id |-> <<"x">>,
     prediction_source |-> JStr(<<"g", "e", "m", "i", "n", "i">>),
     meal_datetime |-> 9, created_at |-> 9]

FrameNext ==
    \/ SavePredictedMealRequest({"u1"},
           SaveBodies({OneSource}, {OneFoodType}, {OneName}, {OneNutrients}, {NoImage}),
           {TRUE}, MaxUpdateMeals)
    \/ UpdateMealRequest({"u1"},
           {b \in PartialFields : Supplied(b) = {}}
               \cup {b @@ ExtraKeys : b \in PartialFields})
    \/ Tick

FrameSpec == MealInit /\ [][FrameNext]_vars

\* Meals of two users, looked up, updated and deleted by their owner or by
\* the other user.
NotesOnly == {b \in PartialFields : Supplied(b) = {"notes"}}

ScopeNext ==
    \/ SavePredictedMealRequest(Users,
           SaveBodies({OneSource}, {OneFoodType}, {OneName}, {OneNutrients}, {NoImage}),
           {TRUE}, MaxScopeMeals)
    \/ GetMealByIdRequest(Users)
    \/ NutrientGetMealByIdRequest(Users)
    \/ UpdateMealRequest(Users, NotesOnly)
    \/ NutrientUpdateMealRequest(Users, NotesOnly)
    \/ DeleteMealRequest(Users)
    \/ NutrientDeleteMealRequest(Users)

ScopeSpec == MealInit /\ [][ScopeNext]_vars

\* Meals of one user, with or without an image, deleted through either
\* controller by their owner or by another user.
DeleteNext ==
    \/ PredictFoodRequest(OneUpload, OneEnv)
    \/ SavePredictedMealRequest({"u1"},
           SaveBodies({OneSource}, {OneFoodType}, {OneName}, {OneNutrients},
                      StagingIds \cup {NoImage}),
           {TRUE}, MaxDeleteMeals)
    \/ DeleteMealRequest(Users)
    \/ NutrientDeleteMealRequest(Users)

DeleteSpec == ImageInit /\ [][DeleteNext]_vars

\* Summaries: meals of two users, saved at different times, with all four
\* core fields or with some of them only.
SummaryNutrients ==
    { JDict([n \in {"Calories", "Protein (g)", "Carbs (g)", "Fat (g)"} |->
                 IF n = "Calories" THEN 350 ELSE 20]),
      JDict([n \in {"Calories", "Protein (g)", "Carbs (g)", "Fat (g)"} |->
                 IF n = "Calories" THEN 125 ELSE 5]),
      JDict([n \in {"Calories"} |-> 350]) }

SummaryNext ==
    \/ SavePredictedMealRequest(Users,
           SaveBodies({OneSource}, {OneFoodType}, {OneName}, SummaryNutrients, {NoImage}),
           {TRUE}, MaxSummaryMeals)
    \/ GetNutritionSummaryRequest(Users)
    \/ NutrientGetNutritionSummaryRequest(Users)
    \/ Tick

SummarySpec == MealInit /\ [][SummaryNext]_vars

\* Summaries and lookups between saves, updates and deletes of one user; the
\* other user has no meal.
RecomputeNutrients ==
    { JDict([n \in {"Calories", "Protein (g)", "Carbs (g)", "Fat (g)"} |->
                 IF n = "Calories" THEN 350 ELSE 20]),
      JDict([n \in {"Calories"} |-> 350]) }

RecomputeNext ==
    \/ SavePredictedMealRequest({"u1"},
           SaveBodies({OneSource}, {OneFoodType, JStr(<<"d", "i", "n", "n", "e", "r">>)},
                      {OneName}, RecomputeNutrients, {NoImage}),
           {TRUE}, MaxRecomputeMeals)
    \/ UpdateMealRequest({"u1"},
           UpdateBodies({JNull}, {JNull}, {JNull},
               {JDict([n \in {"Calories", "Protein (g)", "Carbs (g)", "Fat (g)"} |->
                           IF n = "Calories" THEN 125 ELSE 5])}))
    \/ DeleteMealRequest({"u1"})
    \/ GetMealByIdRequest({"u1"})
    \/ NutrientGetMealByIdRequest({"u1"})
    \/ GetNutritionSummaryRequest(Users)
    \/ NutrientGetNutritionSummaryRequest(Users)
    \/ NutrientGetFoodTypeSummaryRequest(Users)

RecomputeSpec == MealInit /\ [][RecomputeNext]_vars

-----------------------------------------------------------------------------
(* The outputs of the local models: MLModelService.predict_nutrients and   *)
(* MLModelService.classify_food after the forward pass.                    *)

\* One output of the nutrient model: a number in thousandths, or one of the
\* floats that are not numbers.  No number lies halfway between two
\* hundredths, where round() depends on the binary float.
Num(v) == [kind |-> "num", v |-> v]
RawOutputs ==
    { Num(0 - 1234), Num(0 - 4), Num(1234),
      [kind |-> "nan", v |-> 0], [kind |-> "inf", v |-> 0], [kind |-> "-inf", v |-> 0] }

nutrient_names == <<"Calories", "Protein (g)", "Carbs (g)", "Fat (g)">>

\* A variant of the value computation without max(0, ...).
NutrientValueUnfloored(value) ==
    IF value.kind = "num" THEN Num(Round2(value.v, 1000)) ELSE value

\* max(0, round(float(value), 2)), in hundredths: round keeps nan and the
\* infinities, and max(0, x) is x only when x > 0, which nan is not.
NutrientValue(value) ==
    CASE value.kind = "num" ->
            LET r == Round2(value.v, 1000) IN Num(IF r > 0 THEN r ELSE 0)
      [] value.kind = "inf" -> value
      [] OTHER -> Num(0)

\* The result of predict_nutrients for the outputs predictions_np.
NutrientResult(predictions_np) ==
    [success |-> TRUE,
     nutrients |-> [n \in {nutrient_names[i] : i \in 1..4} |->
                       NutrientValue(predictions_np[CHOOSE i \in 1..4 :
                                                       nutrient_names[i] = n])]]

\* multi_probs.argsort(): an order of the class indices in which the
\* probabilities ascend; the default sort is not stable, so classes of equal
\* probability come in any order.
Argsort(multi_probs) ==
    {order \in [1..Len(multi_probs) -> 1..Len(multi_probs)] :
        /\ \A i, j \in 1..Len(multi_probs) : i # j => order[i] # order[j]
        /\ \A i, j \in 1..Len(multi_probs) :
               i < j => multi_probs[order[i]] <= multi_probs[order[j]]}

\* order[::-1][:topk] with the class and its probability for each index: a
\* negative topk cuts that many entries off the end.
Predictions(multi_probs, order, topk) ==
    LET n == Len(multi_probs)
        k == IF topk >= 0 THEN (IF topk < n THEN topk ELSE n)
             ELSE (IF n + topk > 0 THEN n + topk ELSE 0)
    IN  [i \in 1..k |-> [class |-> order[n + 1 - i],
                         confidence |-> multi_probs[order[n + 1 - i]]]]

\* The softmax outputs: probabilities in units of 1 / MaxProb.
Probabilities ==
    LET RECURSIVE Sum(_, _)
        Sum(p, n) == IF n = 0 THEN 0 ELSE p[n] + Sum(p, n - 1)
    IN  {p \in [1..NumClasses -> 0..MaxProb] : Sum(p, NumClasses) = MaxProb}

\* predict_nutrients on an image, the model loaded.
NutrientInference ==
    /\ \E predictions_np \in [1..4 -> RawOutputs] :
           result' = [raw |-> predictions_np, out |-> NutrientResult(predictions_np)]
    /\ UNCHANGED <<gemini_service, ml_service, cloud, user_meals, next_id, now,
                   response, promotions, pc, pending>>

\* classify_food on an image, the model loaded.
ClassifyInference ==
    /\ \E multi_probs \in Probabilities, topk \in (0 - 1)..MaxTopK :
       \E order \in Argsort(multi_probs) :
           result' = [multi_probs |-> multi_probs, topk |-> topk,
                      predictions |-> Predictions(multi_probs, order, topk)]
    /\ UNCHANGED <<gemini_service, ml_service, cloud, user_meals, next_id, now,
                   response, promotions, pc, pending>>

\* Nutrient predictions for every vector of outputs.
NutrientOutputSpec == MealInit /\ [][NutrientInference]_vars

\* Classifications for every vector of probabilities and every topk.
ClassifySpec == MealInit /\ [][ClassifyInference]_vars

-----------------------------------------------------------------------------
(* PredictionService.predict_food followed block by block, with backend    *)
(* calls that may never return: generate_content (gemini_service.py:106)   *)
(* and the models' forward passes (ml_service.py:174, 227) are called      *)
(* without a timeout, on the thread of the request.                        *)

StepEnvs ==
    [gemini : {"food", "bad_json", "transport_error", "hang"},
     ml_init : MLServices \cup {None},
     cls : {"ok", "error", "hang"}, nut : {"ok", "error", "hang"}]

\* The generative call is made and never returns.
GeminiHangs(gs, env) == gs # "None" /\ IsReady(gs) /\ env.gemini = "hang"

\* A local call is made and never returns.
MlHangs(ms, env) ==
    LET got == GetMlService(ms, env.ml_init) IN
    /\ ~got.raised
    /\ got.service # None
    /\ \/ got.service.food_classifier_model /\ env.cls = "hang"
       \/ got.service.nutrient_model /\ env.nut = "hang"

\* Line 22: the report is initialised and the first try block is entered.
BeginPredict ==
    /\ pc = "idle"
    /\ \E env \in StepEnvs :
           pending' = [env |-> env, gs |-> gemini_service, ms |-> ml_service,
                       gemini |-> None]
    /\ pc' = "gemini"
    /\ result' = None
    /\ UNCHANGED <<gemini_service, ml_service, cloud, user_meals, next_id, now,
                   response, promotions>>

\* Lines 32-65 complete: the generative call, if made, has returned.
GeminiBlockDone ==
    /\ pc = "gemini"
    /\ ~GeminiHangs(gemini_service, pending.env)
    /\ pending' = [pending EXCEPT
                       !.gemini = CatchGemini(GeminiTry(gemini_service, pending.env))]
    /\ pc' = "ml"
    /\ UNCHANGED <<gemini_service, ml_service, cloud, user_meals, next_id, now, result,
                   response, promotions>>

\* Lines 68-123 complete: the local calls made have returned and the report
\* is returned.
MlBlockDone ==
    /\ pc = "ml"
    /\ ~MlHangs(ml_service, pending.env)
    /\ LET g == pending.gemini
           m == CatchMl(MlTry(ml_service, pending.env))
       IN  /\ ml_service' = m.service
           /\ result' = [call |-> [gs |-> pending.gs, ms |-> pending.ms,
                                   env |-> pending.env],
                         raised |-> FALSE,
                         report |-> [success |-> OverallSuccess(g.prediction, m.prediction),
                                     gemini_prediction |-> g.prediction,
                                     ml_prediction |-> m.prediction,
                                     gemini_available |-> g.available,
                                     ml_available |-> m.available,
                                     errors |-> g.errors \o m.errors]]
    /\ pc' = "done"
    /\ UNCHANGED <<gemini_service, cloud, user_meals, next_id, now, response,
                   promotions, pending>>

\* The caller has the report; the next request may come.
EndPredict ==
    /\ pc = "done"
    /\ pc' = "idle"
    /\ pending' = None
    /\ UNCHANGED <<gemini_service, ml_service, cloud, user_meals, next_id, now, result,
                   response, promotions>>

StepNext == BeginPredict \/ GeminiBlockDone \/ MlBlockDone \/ EndPredict

\* A block whose calls have returned is followed by the next statement.
StepSpec ==
    /\ Init
    /\ [][StepNext]_vars
    /\ WF_vars(GeminiBlockDone)
    /\ WF_vars(MlBlockDone)

-----------------------------------------------------------------------------
(* Properties.                                                             *)

\* The predict_food call of the last request, when it made one.
Called == result # None

\* The service object the call had: the global, or the one built for it.
ServiceOf(call) == IF call.ms # None THEN call.ms ELSE call.env.ml_init

\* What each backend call did, read from the outcomes and not from the report.
GenerativeOk(call) == IsReady(call.gs) /\ call.env.gemini = "food"
ClassifyOk(call) ==
    /\ ServiceOf(call) # None
    /\ ServiceOf(call).food_classifier_model
    /\ call.env.cls = "ok"
NutrientsOk(call) ==
    /\ ServiceOf(call) # None
    /\ ServiceOf(call).nutrient_model
    /\ call.env.nut = "ok"
LocalOk(call) == ClassifyOk(call) \/ NutrientsOk(call)

Services(errors) == [i \in 1..Len(errors) |-> errors[i].service]
LocalServices == {"ml", "ml_classification", "ml_nutrients"}

\* The services the errors list names, in order, when one entry is written
\* per backend call without a usable result.
ExpectedServices(call) ==
    (IF GenerativeOk(call) THEN <<>> ELSE <<"gemini">>)
    \o (IF ServiceOf(call) = None THEN <<"ml">>
        ELSE (IF ClassifyOk(call) THEN <<>> ELSE <<"ml_classification">>)
             \o (IF NutrientsOk(call) THEN <<>> ELSE <<"ml_nutrients">>))

OneBackendFails(call) == GenerativeOk(call) # LocalOk(call)

C2_BothFail ==
    (Called /\ ~result.raised
        /\ ~GenerativeOk(result.call) /\ ~LocalOk(result.call)) =>
        /\ result.report.success = "False"
        /\ \E i \in 1..Len(result.report.errors) :
               result.report.errors[i].service = "gemini"
        /\ \E i \in 1..Len(result.report.errors) :
               result.report.errors[i].service \in LocalServices

\* C3: the success flag is true exactly when a usable sub-result is in the
\* report: a generative prediction, a classification or a nutrient estimate.
C3_SuccessIffSubResult ==
    (Called /\ ~result.raised) =>
        (result.report.success = "True"
            <=> \/ result.report.gemini_prediction # None
                \/ /\ result.report.ml_prediction # None
                   /\ \/ result.report.ml_prediction.classification # None
                      \/ result.report.ml_prediction.nutrients # None)

\* C3 witness: the nutrient estimate is the only sub-result.
C3_Witness ==
    /\ Called /\ ~result.raised
    /\ result.report.success = "True"
    /\ result.report.gemini_prediction = None
    /\ result.report.ml_prediction.classification = None
    /\ result.report.ml_prediction.nutrients # None

\* C4: predict_food never raises; each backend call that failed (service
\* absent or not ready, exception, soft failure) is in errors with its
\* service and a reason, and the sub-result of each call that succeeded is
\* in the report.
C4_NeverRaises ==
    Called =>
        /\ ~result.raised
        /\ result.report # None
        /\ \A i \in 1..Len(result.report.errors) :
               /\ result.report.errors[i].service \in LocalServices \cup {"gemini"}
               /\ result.report.errors[i].error # ""
        /\ ~GenerativeOk(result.call) =>
               \E i \in 1..Len(result.report.errors) :
                   result.report.errors[i].service = "gemini"
        /\ ~ClassifyOk(result.call) =>
               \E i \in 1..Len(result.report.errors) :
                   result.report.errors[i].service \in {"ml", "ml_classification"}
        /\ ~NutrientsOk(result.call) =>
               \E i \in 1..Len(result.report.errors) :
                   result.report.errors[i].service \in {"ml", "ml_nutrients"}
        /\ GenerativeOk(result.call) => result.report.gemini_prediction # None
        /\ ClassifyOk(result.call) =>
               /\ result.report.ml_prediction # None
               /\ result.report.ml_prediction.classification # None
        /\ NutrientsOk(result.call) =>
               /\ result.report.ml_prediction # None
               /\ result.report.ml_prediction.nutrients # None

\* C4 witness: the generative call threw and the local service could not be
\* built for a second request, after a first whose classification is kept.
C4_Witness ==
    /\ Called /\ ~result.raised
    /\ IsReady(result.call.gs) /\ result.call.env.gemini = "transport_error"
    /\ ClassifyOk(result.call)
    /\ result.report.ml_prediction.classification # None
    /\ \E i \in 1..Len(result.report.errors) :
           result.report.errors[i].service = "gemini"


\* The last request was an upload to a prediction endpoint, with a file.
Uploaded ==
    /\ response # None
    /\ response.handler \in {"predict_food", "predict_nutrients_only"}
    /\ response.request.present
    /\ response.request.filename # <<>>

C5_HungBackendDoesNotStall ==
    (/\ pc = "gemini"
     /\ GeminiHangs(pending.gs, pending.env) # MlHangs(pending.ms, pending.env))
        ~> (pc = "done")


-----------------------------------------------------------------------------
(* The meal ledger. *)

Saves == {"save_predicted_meal", "save_meal"}

\* The last request was a save or an update that carried this food type.
FoodTypeSent ==
    /\ response # None
    /\ response.handler \in Saves \cup {"update_meal"}
    /\ response.request.data # None

\* The meal the last request wrote
Written == user_meals[response.meal_id]

\* C7: after any save or update every stored food type is one of the eight
\* allowed values, and a food type that reaches the ledger is stored without
\* an error: as the allowed value it matches once lower-cased and trimmed,
\* and as "other" when it matches none (any other string, a non-string).
C7_FoodTypeNormalized ==
    /\ \A id \in DOMAIN user_meals : user_meals[id].food_type \in VALID_MEAL_TYPES
    /\ FoodTypeSent /\ ~Falsy(response.request.data.food_type) =>
       LET ft == response.request.data.food_type IN
       /\ response.handler \in Saves => response.status = 201
       /\ response.status \in {200, 201} =>
              Written.food_type = IF ft.t = "str" THEN Normalize(ft.v) ELSE Other

\* What the code does with a food type: the stored one is always allowed; a
\* string is stored normalized; a save with a null or empty one is answered
\* 400 and one with a non-string 500, neither writing a meal; an update
\* stores "other" for a number.
FoodTypeNormalizedOrRejected ==
    /\ \A id \in DOMAIN user_meals : user_meals[id].food_type \in VALID_MEAL_TYPES
    /\ FoodTypeSent =>
       LET ft == response.request.data.food_type IN
       /\ response.handler \in Saves /\ Falsy(ft) =>
              response.status = 400 /\ response.meal_id = 0
       /\ response.handler \in Saves /\ ~Falsy(ft) /\ ft.t # "str" =>
              response.status = 500 /\ response.meal_id = 0
       /\ response.handler \in Saves /\ ~Falsy(ft) /\ ft.t = "str" =>
              /\ response.status = 201
              /\ Written.food_type = Strip(Lower(ft.v))
                 \/ /\ Strip(Lower(ft.v)) \notin VALID_MEAL_TYPES
                    /\ Written.food_type = Other
       /\ response.handler = "update_meal" /\ response.status = 200 /\ ft.t = "str" =>
              \/ Written.food_type = Strip(Lower(ft.v))
              \/ /\ Strip(Lower(ft.v)) \notin VALID_MEAL_TYPES
                 /\ Written.food_type = Other
       /\ response.handler = "update_meal" /\ response.status = 200 /\ ft.t = "num" =>
              Written.food_type = Other

\* C8: after any save or update no stored nutrient value is negative.
C8_NutrientsNonNegative ==
    \A id \in DOMAIN user_meals :
        user_meals[id].nutrients.t = "dict" =>
            \A k \in DOMAIN user_meals[id].nutrients.d :
                user_meals[id].nutrients.d[k] >= 0

\* C9: the meal a save wrote has no image reference only if the request
\* carried no staging id or the promotion failed, and no stored reference is
\* a staging id or names an object the store does not hold.
C9_ImageRefNullOrPermanent ==
    /\ \A id \in DOMAIN user_meals :
           user_meals[id].image_public_id # NoImage =>
               /\ user_meals[id].image_public_id[1] # "temp_meals"
               /\ user_meals[id].image_public_id \in cloud
    /\ response # None /\ response.handler \in Saves /\ response.status = 201 =>
           (Written.image_public_id = NoImage =>
                \/ response.request.data.temp_image_public_id = NoImage
                \/ ~response.promoted)

\* C10: with an image store that accepts every request, a save that carries
\* a staging id an earlier save carried stores the image reference the
\* earlier save stored.
C10_PromotionIdempotent ==
    \A i \in DOMAIN promotions, j \in DOMAIN promotions :
        /\ i < j
        /\ promotions[i].temp = promotions[j].temp
        /\ promotions[i].store_ok
        /\ promotions[j].store_ok
        => promotions[j].image_public_id = promotions[i].image_public_id

\* The folders of the permanent image ids
PermanentFolders == {"meals", "user_meals"}

\* The last request was a save that carried a staging id and passed the
\* controller's validation.
SaveWithStagingId ==
    /\ response # None
    /\ response.handler \in Saves
    /\ response.request.data # None
    /\ response.request.data.temp_image_public_id # NoImage
    /\ response.status # 400

\* C11: a save that carries a staging id and passes validation writes the
\* meal whether the promotion succeeds or fails (the insert working); after
\* a failed promotion the meal's image reference is null or the staging id
\* itself, which is not an id of a permanent folder.
C11_SaveWritesMealWhateverPromotion ==
    SaveWithStagingId =>
        /\ response.status = 201
        /\ response.meal_id \in DOMAIN user_meals
        /\ IF response.promoted
           THEN Written.image_public_id[1] \in PermanentFolders
           ELSE \/ Written.image_public_id = NoImage
                \/ /\ Written.image_public_id = response.request.data.temp_image_public_id
                   /\ Written.image_public_id[1] \notin PermanentFolders

C11_Witness ==
    /\ SaveWithStagingId
    /\ ~response.promoted
    /\ response.handler = "save_meal"
    /\ response.status = 201
    /\ Written.image_public_id = NoImage
    /\ \E id \in DOMAIN user_meals :
           user_meals[id].image_public_id = response.request.data.temp_image_public_id

\* C12: a step that is a save with a staging id either promotes, and then
\* the object is in the store under the permanent id and the staged copy is
\* not, or does not promote, and then the store is as it was: the staged
\* copy is still there and no permanent object was created.
C12_PromotionMovesOrLeaves ==
    [][(response' # response /\ SaveWithStagingId') =>
          IF response'.promoted
          THEN /\ response'.image_public_id \in cloud'
               /\ response'.request.data.temp_image_public_id \notin cloud'
          ELSE cloud' = cloud]_vars

\* C13: no two stored meals hold the same image id.
C13_ImageOfOneMeal ==
    \A i \in DOMAIN user_meals, j \in DOMAIN user_meals :
        /\ i # j
        /\ user_meals[i].image_public_id # NoImage
        => user_meals[i].image_public_id # user_meals[j].image_public_id

\* A save body the claim calls invalid: the selected source is not one of
\* the three allowed values, or the food type is missing, or the nutrients
\* are missing or empty.
InvalidSave(data) ==
    \/ data.selected_prediction.t # "str"
    \/ data.selected_prediction.v \notin PredictionSources
    \/ Falsy(data.food_type)
    \/ Falsy(data.nutrients)

\* C14: a step that is a save with an invalid body is answered with the
\* validation error, writes no meal and leaves the image store as it was.
C14_InvalidSaveRejected ==
    [][(/\ response' # response
        /\ response'.handler \in Saves
        /\ response'.request.data # None
        /\ InvalidSave(response'.request.data)) =>
          /\ response'.status = 400
          /\ user_meals' = user_meals
          /\ cloud' = cloud]_vars

\* The step is an update that succeeded.
UpdateSucceeds ==
    /\ response' # response
    /\ response'.handler \in {"update_meal", "nutrient_update_meal"}
    /\ response'.status = 200

\* The fields of a stored meal
MealFields ==
    {"user_id", "nutrients", "image_url", "image_public_id", "meal_name", "notes",
     "food_type", "prediction_source", "user_edited", "meal_datetime", "created_at",
     "updated_at"}

C16_UpdateMarksEdited ==
    [][(/\ UpdateSucceeds
        /\ Supplied(response'.request.data)
               \cap {"nutrients", "food_type", "meal_name"} # {}) =>
          user_meals'[response'.meal_id].user_edited = TRUE]_vars

\* An update that supplied the food type only has been answered 200 and the
\* meal, saved with user_edited = false, has it true.
C16_Witness ==
    /\ response # None
    /\ response.handler = "update_meal"
    /\ response.status = 200
    /\ Supplied(response.request.data) = {"food_type"}
    /\ Written.food_type = <<"d", "i", "n", "n", "e", "r">>
    /\ Written.user_edited

Lookups == {"get_meal_by_id", "nutrient_get_meal_by_id"}
Updates == {"update_meal", "nutrient_update_meal"}
Deletes == {"delete_meal", "nutrient_delete_meal"}

\* The step is a lookup, an update or a delete of a meal that does not exist
\* or belongs to another owner.
ScopedMiss ==
    /\ response' # response
    /\ response'.handler \in Lookups \cup Updates \cup Deletes
    /\ ~Matches(user_meals, response'.request.meal_id, response'.request.user_id)

\* C17: a lookup, update or delete of a meal that does not exist or belongs
\* to another owner is answered as a failure, never a success, with the
\* error "Meal not found" in both cases, and leaves every meal as it was.
C17_ScopedToOwner ==
    [][ScopedMiss =>
          /\ response'.status \notin {200, 201}
          /\ response'.handler \in Lookups \cup Deletes =>
                 ~response'.success /\ response'.error = "Meal not found"
          /\ user_meals' = user_meals]_vars

\* A delete request for a meal that exists and belongs to the requesting owner.
DeleteHit ==
    /\ response' # response
    /\ response'.handler \in Deletes
    /\ Matches(user_meals, response'.request.meal_id, response'.request.user_id)

\* C18: a delete of an existing meal of the owner removes that meal and no
\* other, returns the image reference that was stored on it, and succeeds
\* whether or not the removal of the image from the store succeeds.
C18_DeleteRemovesExactlyTheMeal ==
    [][DeleteHit =>
          LET meal_id == response'.request.meal_id IN
          /\ DOMAIN user_meals' = DOMAIN user_meals \ {meal_id}
          /\ \A i \in DOMAIN user_meals' : user_meals'[i] = user_meals[i]
          /\ response'.image_public_id = user_meals[meal_id].image_public_id
          /\ response'.status = 200
          /\ response'.success]_vars

\* A delete succeeded although its image could not be removed from the store:
\* the meal is gone, its image is still stored, another meal is still there.
C18_Witness ==
    /\ response # None
    /\ response.handler = "nutrient_delete_meal"
    /\ response.status = 200
    /\ response.purge = "failed"
    /\ response.image_public_id \in cloud
    /\ response.request.meal_id \notin DOMAIN user_meals
    /\ DOMAIN user_meals # {}

\* C19: every successful delete of a meal that has an image reference, through
\* either delete endpoint, attempts to remove the image from the store.
C19_DeleteCascadesToImage ==
    [][(DeleteHit /\ user_meals[response'.request.meal_id].image_public_id # NoImage
                  /\ response'.success) =>
          response'.purge \in {"ok", "failed"}]_vars

Summaries == {"get_nutrition_summary", "nutrient_get_nutrition_summary"}

\* C20: a summary that is answered gives, for each of the four core fields,
\* the sum over the meals of the owner in the range as total, that total
\* divided by the number of those meals (rounded to 2 decimals) as average,
\* and the number of those meals as count.
C20_SummaryIsSumAndMeanOverMatching ==
    [][(response' # response /\ response'.handler \in Summaries /\ response'.success) =>
          LET q == response'.request
              ids == {i \in DOMAIN user_meals :
                         /\ user_meals[i].user_id = q.user_id
                         /\ q.start_date # None => user_meals[i].meal_datetime >= q.start_date.at
                         /\ q.end_date # None => user_meals[i].meal_datetime <= q.end_date.at}
              total(k) == SumField(user_meals, WithField(user_meals, ids, SummaryFields[k]),
                                   SummaryFields[k])
              data == response'.data
          IN  /\ data.meal_count = Cardinality(ids)
              /\ \A k \in DOMAIN SummaryFields :
                     /\ data.total_nutrients[k] = total(k)
                     /\ data.average_nutrients[k] =
                            IF ids = {} THEN 0 ELSE Round2(total(k), Cardinality(ids))]_vars

\* A summary request is answered.
SummaryStep == response' # response /\ response'.handler \in Summaries

\* C21: a summary for an owner none of whose meals is in the range, or who
\* has no meal, succeeds with all totals 0, all averages 0 and count 0.
C21_EmptySummaryIsZero ==
    [][(/\ SummaryStep
        /\ \A i \in DOMAIN user_meals :
               LET q == response'.request IN
               \/ user_meals[i].user_id # q.user_id
               \/ q.start_date # None /\ user_meals[i].meal_datetime < q.start_date.at
               \/ q.end_date # None /\ user_meals[i].meal_datetime > q.end_date.at) =>
          /\ response'.success
          /\ response'.status = 200
          /\ response'.data.meal_count = 0
          /\ \A k \in DOMAIN SummaryFields :
                 /\ response'.data.total_nutrients[k] = 0
                 /\ response'.data.average_nutrients[k] = 0]_vars

\* A zero summary answered to a user who has meals, none of them in the range.
C21_Witness ==
    /\ response # None
    /\ response.handler \in Summaries
    /\ response.success
    /\ response.data.meal_count = 0
    /\ response.request.start_date # None
    /\ \E i \in DOMAIN user_meals : user_meals[i].user_id = response.request.user_id

C23_NutrientsRoundTrip ==
    [][/\ (response' # response /\ response'.handler \in Saves
                                /\ response'.status = 201) =>
              /\ DOMAIN user_meals' = DOMAIN user_meals \cup {response'.meal_id}
              /\ user_meals'[response'.meal_id].nutrients
                     = response'.request.data.nutrients
       /\ (response' = response \/ response'.handler \notin Updates) =>
              \A i \in DOMAIN user_meals \cap DOMAIN user_meals' :
                  user_meals'[i].nutrients = user_meals[i].nutrients
       /\ (/\ response' # response
           /\ response'.handler \in Lookups
           /\ Matches(user_meals, response'.request.meal_id,
                      response'.request.user_id)) =>
              LET stored == user_meals[response'.request.meal_id].nutrients
                  meal == IF response'.handler = "get_meal_by_id"
                          THEN response'.data.meal ELSE response'.data
              IN  /\ response'.status = 200
                  /\ meal.nutrients = stored
                  /\ DOMAIN meal.nutrients.d = DOMAIN stored.d]_vars

\* A lookup returned, for a meal that was not updated, a nutrients map with
\* the one key it was saved with.
C23_Witness ==
    /\ response # None
    /\ response.handler = "nutrient_get_meal_by_id"
    /\ response.status = 200
    /\ DOMAIN response.data.nutrients.d = {"Calories"}
    /\ response.request.meal_id \in DOMAIN user_meals
    /\ ~user_meals[response.request.meal_id].user_edited

\* The generative service was called and answered with this content.
Answered(contents) ==
    /\ Called
    /\ IsReady(result.call.gs)
    /\ result.call.env.gemini \in contents

\* The analysis returned a soft failure: no exception, success false and a
\* reason, which the report carries as its 'gemini' error.
SoftFailure ==
    LET a == AnalyzeFoodImage(result.call.gs, result.call.env.gemini) IN
    /\ ~a.raised
    /\ ~a.result.success
    /\ a.result.error # ""
    /\ result.report.errors[1] = [service |-> "gemini", error |-> a.result.error]

\* The report says the generative service is unavailable.
ReportedUnavailable ==
    /\ ~result.report.gemini_available
    /\ result.report.errors[1] =
           [service |-> "gemini", error |-> "Gemini service not available"]

C25_AvailableIffAModelLoaded ==
    (Called /\ ~result.raised) =>
        (result.report.ml_available
            <=> /\ ServiceOf(result.call) # None
                /\ IsModelReady(ServiceOf(result.call)))

\* C26: every value of a successful nutrient result is at least 0, whatever
\* the model put out: a negative output, nan and -inf give 0.
C26_NutrientsFlooredAtZero ==
    (result # None /\ "out" \in DOMAIN result) =>
        /\ result.out.success
        /\ DOMAIN result.out.nutrients = {nutrient_names[i] : i \in 1..4}
        /\ \A i \in 1..4 :
               LET value == result.out.nutrients[nutrient_names[i]] IN
               /\ value.kind \in {"num", "inf"}
               /\ value.kind = "num" => value.v >= 0
               /\ (result.raw[i].kind = "num" /\ result.raw[i].v < 0) => value = Num(0)
               /\ result.raw[i].kind \in {"nan", "-inf"} => value = Num(0)

\* A nutrient result for outputs of which one is negative, one is nan and one
\* is positive.
C26_Witness ==
    /\ result # None /\ "out" \in DOMAIN result
    /\ result.raw[1] = Num(0 - 1234) /\ result.out.nutrients["Calories"] = Num(0)
    /\ result.raw[2].kind = "nan" /\ result.out.nutrients["Protein (g)"] = Num(0)
    /\ result.raw[3] = Num(1234) /\ result.out.nutrients["Carbs (g)"] = Num(123)

\* C27: the classification has at most topK entries, they are the classes of
\* highest probability in descending order of probability, and of two classes
\* of equal probability the one with the smaller index comes first.
C27_TopKDescendingTiesByIndex ==
    (result # None /\ "predictions" \in DOMAIN result) =>
        LET ps == result.predictions
            chosen == {ps[i].class : i \in 1..Len(ps)}
        IN  /\ Len(ps) <= result.topk
            /\ \A i \in 1..Len(ps) : ps[i].confidence = result.multi_probs[ps[i].class]
            /\ \A c \in chosen, d \in (1..NumClasses) \ chosen :
                   result.multi_probs[c] >= result.multi_probs[d]
            /\ \A i, j \in 1..Len(ps) :
                   i < j => \/ ps[i].confidence > ps[j].confidence
                            \/ /\ ps[i].confidence = ps[j].confidence
                               /\ ps[i].class < ps[j].class

\* C28: a request to predict_food adds an object to the staging store only
\* when the upload passed validation and the prediction succeeded; a rejected
\* upload and a prediction that failed leave the store as it was; and a
\* successful prediction is answered 200 whether or not the staging upload
\* worked.
C28_StagedOnlyAfterSuccess ==
    [][(response' # response /\ response'.handler = "predict_food") =>
          LET predicted == /\ result' # None
                           /\ ~result'.raised
                           /\ result'.report.success = "True"
          IN  /\ cloud' # cloud =>
                     /\ ValidateUpload(response'.request) = 0
                     /\ predicted
                     /\ cloud' = cloud \cup {response'.image_public_id}
                     /\ response'.image_public_id[1] = "temp_meals"
              /\ (ValidateUpload(response'.request) # 0 \/ ~predicted) =>
                     /\ cloud' = cloud
                     /\ response'.status # 200
                     /\ response'.image_public_id = NoImage
              /\ predicted => response'.status = 200]_vars

\* A successful prediction was answered 200 although the staging upload
\* failed: no staged image, nothing in the store.
C28_Witness ==
    /\ response # None
    /\ response.handler = "predict_food"
    /\ response.status = 200
    /\ response.image_public_id = NoImage
    /\ Called /\ result.report.success = "True"
    /\ cloud = {}

\* The fields of a meal that no update may change.
Frame ==
    {"user_id", "image_url", "image_public_id", "prediction_source", "meal_datetime",
     "created_at"}

\* C29: an update, whatever keys its body carries, leaves the owner, the
\* image reference, the prediction source, the meal's time and its creation
\* time of every meal as they were, and adds or removes no meal.
C29_UpdateKeepsFrame ==
    [][(response' # response /\ response'.handler \in Updates) =>
          /\ DOMAIN user_meals' = DOMAIN user_meals
          /\ \A id \in DOMAIN user_meals : \A f \in Frame :
                 user_meals'[id][f] = user_meals[id][f]]_vars

\* An update whose body named another owner and another image was answered
\* 200, at a later time than the save, and the meal is still its owner's,
\* without image, created when it was saved.
C29_Witness ==
    /\ response # None
    /\ response.handler = "update_meal"
    /\ response.status = 200
    /\ "user_id" \in DOMAIN response.request.data
    /\ user_meals[response.meal_id].user_id = "u1"
    /\ user_meals[response.meal_id].image_public_id = NoImage
    /\ user_meals[response.meal_id].created_at = 0
    /\ user_meals[response.meal_id].updated_at = 1

\* C30: every summary request is answered with a successful summary,
\* whatever nutrients maps the stored meals have.
C30_SummaryAlwaysSucceeds ==
    (response # None /\ response.handler \in Summaries) =>
        /\ response.success
        /\ response.status = 200
        /\ response.data # None

====
